---- MODULE Spec2Model ----
(***************************************************************************)
(* Dijkstra's algorithm with step recording (dijkstra_with_steps) and the  *)
(* frame-by-frame player (animate_dijkstra / update / draw_graph) of       *)
(* src/Dijkastras_Algorithm.py.                                            *)
(*                                                                         *)
(* Python objects that are shared by reference are kept in two object      *)
(* stores: dicts (dict objects) and sets (set objects).  Object 1 of each  *)
(* store is the live table of the run (distances, visited_nodes); the      *)
(* snapshots taken by dict(...) and set(...) are further objects, and an   *)
(* event holds the identities of its two snapshot objects.                 *)
(***************************************************************************)
EXTENDS Integers, Sequences, FiniteSets, TLC

\* ---- bounds of the model ------------------------------------------------
MaxNode == 2
MaxEdges == 2
MaxWeight == 1

Nodes == 0..MaxNode
\* Weights of the graphs: non-negative ones, and with a negative one.
Weights == 0..MaxWeight
WeightsNeg == (0 - 1)..MaxWeight

\* float('infinity'): larger than every finite distance the bounded inputs
\* can produce (a path uses each edge at most once).
Infinity == (MaxEdges + 1) * (MaxWeight + 1) + 1

\* 'visited_path': None
None == <<>>

\* pushes counts the heap entries created by a call: the initial list of
\* line 47 and the heappush calls of line 75.
VARIABLES graph, node_positions, start_node, pc, error, dicts, sets, priority_queue,
          animation_steps, current_distance, current_node, edge_index,
          frame, frame_index, run, first, pushes

vars == <<graph, node_positions, start_node, pc, error, dicts, sets, priority_queue,
          animation_steps, current_distance, current_node, edge_index,
          frame, frame_index, run, first, pushes>>

\* ---- the live objects of a run -------------------------------------------
distances == dicts[1]
visited_nodes == sets[1]

\* ---- inputs -------------------------------------------------------------
\* Adjacency list of u, cut out of a list of (neighbor, weight) pairs whose
\* sources src are in non-decreasing order.
AdjacencyOf(u, src, adj) ==
    LET e == Len(adj)
        lo == Cardinality({i \in 1..e : src[i] < u})
        cnt == Cardinality({i \in 1..e : src[i] = u})
    IN [j \in 1..cnt |-> adj[lo + j]]

NoFrame == [drawn |-> FALSE]
NoResult == <<>>

\* The state at the call dijkstra_with_steps(graph, start_node), for every
\* graph over the keys 0..k-1 with at most MaxEdges adjacency entries in total
\* and weights in W.  A neighbor and the start node are any nodes of Nodes,
\* keys of the graph or not.  node_positions holds the keys of the layout dict
\* of lines 21-38 (the coordinates do not enter a frame description); it is
\* one of the sets of L.
InitWith(W, L) ==
    /\ \E k \in 1..(MaxNode + 1), e \in 0..MaxEdges :
         \E src \in { f \in [1..e -> 0..(k - 1)] :
                        \A i \in 1..e, j \in 1..e : i <= j => f[i] <= f[j] } :
           \E adj \in [1..e -> Nodes \X W] :
             graph = [u \in 0..(k - 1) |-> AdjacencyOf(u, src, adj)]
    /\ node_positions \in L
    /\ start_node \in Nodes
    /\ pc = "call"
    /\ error = "none"
    /\ dicts = <<>>
    /\ sets = <<>>
    /\ priority_queue = {}
    /\ animation_steps = <<>>
    /\ current_distance = 0
    /\ current_node = start_node
    /\ edge_index = 0
    /\ frame = NoFrame
    /\ frame_index = 0
    /\ run = 1
    /\ first = NoResult
    /\ pushes = 0

Init == InitWith(Weights, {Nodes})

InitNeg == InitWith(WeightsNeg, {Nodes})

\* The layouts with and without a position for every node.
InitLayout == InitWith(Weights, SUBSET Nodes)

\* ---- dijkstra_with_steps -------------------------------------------------
\* Variant of Initialize: the start node is also entered into the graph.
InitializeAddsStart ==
    /\ pc = "call"
    /\ graph' = [node \in (DOMAIN graph) \cup {start_node} |->
                    IF node \in DOMAIN graph THEN graph[node] ELSE <<>>]
    /\ dicts' = << [node \in (DOMAIN graph) \cup {start_node} |->
                       IF node = start_node THEN 0 ELSE Infinity] >>
    /\ sets' = << {} >>
    /\ priority_queue' = { <<0, start_node>> }
    /\ pushes' = 1
    /\ animation_steps' = <<>>
    /\ pc' = "loop"
    /\ UNCHANGED <<node_positions, start_node, error, current_distance, current_node,
                   edge_index, frame, frame_index, run, first>>

\* Variant of Initialize: line 46 is left out, the start stays at infinity.
InitializeNoStartDistance ==
    /\ pc = "call"
    /\ dicts' = << [node \in (DOMAIN graph) \cup {start_node} |-> Infinity] >>
    /\ sets' = << {} >>
    /\ priority_queue' = { <<0, start_node>> }
    /\ pushes' = 1
    /\ animation_steps' = <<>>
    /\ pc' = "loop"
    /\ UNCHANGED <<graph, node_positions, start_node, error, current_distance, current_node,
                   edge_index, frame, frame_index, run, first>>

\* Variant of Initialize: the log is an object shared by all calls (a list
\* given as default value of a parameter, or a list of the module) and line
\* 51 does not create a new one; the events of an earlier call stay in it,
\* with their snapshots.
InitializeKeepsLog ==
    /\ pc = "call"
    /\ LET table == [node \in (DOMAIN graph) \cup {start_node} |->
                        IF node = start_node THEN 0 ELSE Infinity]
       IN dicts' = IF Len(dicts) = 0 THEN << table >> ELSE [dicts EXCEPT ![1] = table]
    /\ sets' = IF Len(sets) = 0 THEN << {} >> ELSE [sets EXCEPT ![1] = {}]
    /\ priority_queue' = { <<0, start_node>> }
    /\ pushes' = 1
    /\ UNCHANGED <<graph, node_positions, start_node, error, animation_steps,
                   current_distance, current_node, edge_index, frame, frame_index,
                   run, first>>
    /\ pc' = "loop"

\* Lines 45-51: the tables of a run.  distances[start_node] = 0 adds the key
\* start_node when the graph does not have it.
Initialize ==
    /\ pc = "call"
    /\ dicts' = << [node \in (DOMAIN graph) \cup {start_node} |->
                       IF node = start_node THEN 0 ELSE Infinity] >>
    /\ sets' = << {} >>
    /\ priority_queue' = { <<0, start_node>> }
    /\ pushes' = 1
    /\ animation_steps' = <<>>
    /\ pc' = "loop"
    /\ UNCHANGED <<graph, node_positions, start_node, error, current_distance, current_node,
                   edge_index, frame, frame_index, run, first>>

\* Order of the (distance, node) tuples in the heap.
TupleLE(a, b) == a[1] < b[1] \/ (a[1] = b[1] /\ a[2] <= b[2])

\* Variant of HeapMin: ties on the distance go to the larger node.
HeapMinLargestNode(pq) ==
    CHOOSE e \in pq : \A f \in pq : e[1] < f[1] \/ (e[1] = f[1] /\ e[2] >= f[2])

\* Variant of HeapMin: the greatest entry is popped.
HeapMax(pq) == CHOOSE e \in pq : \A f \in pq : TupleLE(f, e)

\* heapq.heappop: the least entry of the heap.
HeapMin(pq) == CHOOSE e \in pq : \A f \in pq : TupleLE(e, f)

\* Variant of AlreadyVisited: no entry is taken for stale.
AlreadyVisitedNever(node, visited) == FALSE

\* if current_node in visited_nodes: continue
AlreadyVisited(node, visited) == node \in visited

\* Variant of DictCopy: the event keeps the dict object itself.
DictCopyAlias(store, ref) == [store |-> store, ref |-> ref]

\* dict(distances): a new dict object with the same items.
DictCopy(store, ref) == [store |-> Append(store, store[ref]), ref |-> Len(store) + 1]

\* set(visited_nodes): a new set object with the same elements.
SetCopy(store, ref) == [store |-> Append(store, store[ref]), ref |-> Len(store) + 1]

\* Line 54 followed by the continue of lines 56-57.
PopStale ==
    /\ pc = "loop"
    /\ priority_queue # {}
    /\ LET e == HeapMin(priority_queue) IN
        /\ AlreadyVisited(e[2], visited_nodes)
        /\ priority_queue' = priority_queue \ {e}
        /\ current_distance' = e[1]
        /\ current_node' = e[2]
    /\ UNCHANGED <<graph, node_positions, start_node, pc, error, dicts, sets, animation_steps,
                   edge_index, frame, frame_index, run, first, pushes>>

\* Lines 54-68: pop, mark visited, record the settlement event.
SettleRecord(e) ==
    LET visited1 == [sets EXCEPT ![1] = @ \cup {e[2]}]
        dcopy == DictCopy(dicts, 1)
        scopy == SetCopy(visited1, 1)
    IN /\ ~AlreadyVisited(e[2], visited_nodes)
       /\ priority_queue' = priority_queue \ {e}
       /\ current_distance' = e[1]
       /\ current_node' = e[2]
       /\ dicts' = dcopy.store
       /\ sets' = scopy.store
       /\ animation_steps' = Append(animation_steps,
              [visited_node |-> e[2], visited_path |-> None,
               distances |-> dcopy.ref, visited_nodes_set |-> scopy.ref])

\* Lines 54-70 when graph[current_node] exists.
PopSettle ==
    /\ pc = "loop"
    /\ priority_queue # {}
    /\ LET e == HeapMin(priority_queue) IN
        /\ SettleRecord(e)
        /\ e[2] \in DOMAIN graph
        /\ pc' = IF Len(graph[e[2]]) = 0 THEN "loop" ELSE "edges"
    /\ edge_index' = 1
    /\ UNCHANGED <<graph, node_positions, start_node, error, frame, frame_index, run, first, pushes>>

\* Lines 54-70 when graph[current_node] raises KeyError.
PopSettleKeyError ==
    /\ pc = "loop"
    /\ priority_queue # {}
    /\ LET e == HeapMin(priority_queue) IN
        /\ SettleRecord(e)
        /\ e[2] \notin DOMAIN graph
    /\ pc' = "raised"
    /\ error' = "KeyError"
    /\ UNCHANGED <<graph, node_positions, start_node, edge_index, frame, frame_index, run, first, pushes>>

\* Variant of CurrentEdge: the adjacency list is walked from its end.
CurrentEdgeReversed == graph[current_node][Len(graph[current_node]) + 1 - edge_index]

\* The (neighbor, weight) pair the for loop of line 70 is at.
CurrentEdge == graph[current_node][edge_index]

\* Variant of NeighborUnvisited: a visited neighbor is relaxed as well.
NeighborUnvisitedAlways(neighbor, visited) == TRUE

\* if neighbor not in visited_nodes
NeighborUnvisited(neighbor, visited) == neighbor \notin visited

\* Variant of Candidate: the distance of the popped entry is left out.
CandidateWeightOnly(cd, weight) == weight

\* distance = current_distance + weight
Candidate(cd, weight) == cd + weight

\* Variant of Improves: an equal distance counts as an improvement.
ImprovesOrEqual(distance, old) == distance <= old

\* if distance < distances[neighbor]
Improves(distance, old) == distance < old

\* The for loop moves to the next pair, or the while loop takes over.
NextEdge ==
    /\ edge_index' = edge_index + 1
    /\ pc' = IF edge_index = Len(graph[current_node]) THEN "loop" ELSE "edges"

\* Line 71 false: a visited neighbor is skipped.
EdgeSkipVisited ==
    /\ pc = "edges"
    /\ ~NeighborUnvisited(CurrentEdge[1], visited_nodes)
    /\ NextEdge
    /\ UNCHANGED <<graph, node_positions, start_node, error, dicts, sets, priority_queue,
                   animation_steps, current_distance, current_node,
                   frame, frame_index, run, first, pushes>>

\* Line 73: distances[neighbor] raises KeyError for a neighbor without entry.
EdgeKeyError ==
    /\ pc = "edges"
    /\ NeighborUnvisited(CurrentEdge[1], visited_nodes)
    /\ CurrentEdge[1] \notin DOMAIN distances
    /\ pc' = "raised"
    /\ error' = "KeyError"
    /\ UNCHANGED <<graph, node_positions, start_node, dicts, sets, priority_queue,
                   animation_steps, current_distance, current_node, edge_index,
                   frame, frame_index, run, first, pushes>>

\* Line 73 false: no improvement.
EdgeNoImprove ==
    /\ pc = "edges"
    /\ NeighborUnvisited(CurrentEdge[1], visited_nodes)
    /\ CurrentEdge[1] \in DOMAIN distances
    /\ ~Improves(Candidate(current_distance, CurrentEdge[2]), distances[CurrentEdge[1]])
    /\ NextEdge
    /\ UNCHANGED <<graph, node_positions, start_node, error, dicts, sets, priority_queue,
                   animation_steps, current_distance, current_node,
                   frame, frame_index, run, first, pushes>>

\* Lines 73-84: relaxation, push and relaxation event.
EdgeRelax ==
    /\ pc = "edges"
    /\ NeighborUnvisited(CurrentEdge[1], visited_nodes)
    /\ CurrentEdge[1] \in DOMAIN distances
    /\ LET neighbor == CurrentEdge[1]
           distance == Candidate(current_distance, CurrentEdge[2])
           dicts1 == [dicts EXCEPT ![1][neighbor] = distance]
           dcopy == DictCopy(dicts1, 1)
           scopy == SetCopy(sets, 1)
       IN /\ Improves(distance, distances[neighbor])
          /\ dicts' = dcopy.store
          /\ sets' = scopy.store
          /\ priority_queue' = priority_queue \cup { <<distance, neighbor>> }
          /\ animation_steps' = Append(animation_steps,
                 [visited_node |-> current_node,
                  visited_path |-> <<current_node, neighbor>>,
                  distances |-> dcopy.ref, visited_nodes_set |-> scopy.ref])
    /\ pushes' = pushes + 1
    /\ NextEdge
    /\ UNCHANGED <<graph, node_positions, start_node, error, current_distance, current_node,
                   frame, frame_index, run, first>>

\* Line 53 false and line 86: return distances, animation_steps.
Return ==
    /\ pc = "loop"
    /\ priority_queue = {}
    /\ pc' = "done"
    /\ UNCHANGED <<graph, node_positions, start_node, error, dicts, sets, priority_queue,
                   animation_steps, current_distance, current_node, edge_index,
                   frame, frame_index, run, first, pushes>>

\* final_distances of line 189: the live dict object itself is returned.
final_distances == dicts[1]

\* ---- animate_dijkstra ----------------------------------------------------
\* str of a decimal digit.
DigitStr(d) ==
    CASE d = 0 -> "0" [] d = 1 -> "1" [] d = 2 -> "2" [] d = 3 -> "3"
      [] d = 4 -> "4" [] d = 5 -> "5" [] d = 6 -> "6" [] d = 7 -> "7"
      [] d = 8 -> "8" [] d = 9 -> "9"

\* str(n) of a non-negative int.
RECURSIVE NatStr(_)
NatStr(n) == IF n < 10 THEN DigitStr(n) ELSE NatStr(n \div 10) \o DigitStr(n % 10)

\* str(n) of an int.
IntStr(n) == IF n < 0 THEN "-" \o NatStr(0 - n) ELSE NatStr(n)

\* sorted(final_distances.items()): the items in ascending order of key.
RECURSIVE SortedItems(_, _)
SortedItems(d, keys) ==
    IF keys = {} THEN <<>>
    ELSE LET k == CHOOSE x \in keys : \A y \in keys : x <= y
         IN << <<k, d[k]>> >> \o SortedItems(d, keys \ {k})

\* Lines 152-156: the rows of the table of the final frame.
TableData(final) ==
    LET items == SortedItems(final, DOMAIN final)
    IN [i \in 1..Len(items) |->
          << items[i][1],
             IF items[i][2] # Infinity THEN IntStr(items[i][2]) ELSE "infinity" >>]

\* text drawn over a node: nothing for a node at infinity (line 148)
NoLabel == ""

\* Variant of IsFinalFrame: compared with len(animation_steps).
IsFinalFrameOffByOne(index, steps) == index = Len(steps)

\* is_final_frame = frame_index == len(animation_steps) - 1
IsFinalFrame(index, steps) == index = Len(steps) - 1

\* Variant of draw_graph: the live tables are drawn, not the snapshots.
draw_graph_live(step_info, is_final_frame) ==
    LET current_distances == distances
        visited_nodes_set == visited_nodes
        visited_path == step_info.visited_path
        highlighted_node == step_info.visited_node
        nodes == DOMAIN graph
    IN [drawn |-> TRUE,
        red_edges |-> { uv \in nodes \X Nodes :
                          /\ \E i \in 1..Len(graph[uv[1]]) : graph[uv[1]][i][1] = uv[2]
                          /\ visited_path # None
                          /\ (uv = visited_path \/ <<uv[2], uv[1]>> = visited_path) },
        settled |-> { node \in nodes : node \in visited_nodes_set },
        highlighted |-> { node \in nodes : node = highlighted_node },
        labels |-> [node \in nodes |->
                      IF current_distances[node] # Infinity
                      THEN "d=" \o IntStr(current_distances[node])
                      ELSE NoLabel],
        table |-> IF is_final_frame THEN TableData(final_distances) ELSE None]

\* Lines 105-162: what one call of draw_graph puts on the cleared axes.
\*   red_edges : the (u, v) adjacency entries drawn red      (lines 118-129)
\*   settled   : the nodes filled green                      (lines 138-139)
\*   highlighted : the nodes with a red border               (lines 141-142)
\*   labels    : the d=... text of each node                 (lines 148-149)
\*   table     : the rows of the table, None when there is none (152-162)
draw_graph(step_info, is_final_frame) ==
    LET current_distances == dicts[step_info.distances]
        visited_nodes_set == sets[step_info.visited_nodes_set]
        visited_path == step_info.visited_path
        highlighted_node == step_info.visited_node
        nodes == DOMAIN graph
    IN [drawn |-> TRUE,
        red_edges |-> { uv \in nodes \X Nodes :
                          /\ \E i \in 1..Len(graph[uv[1]]) : graph[uv[1]][i][1] = uv[2]
                          /\ visited_path # None
                          /\ (uv = visited_path \/ <<uv[2], uv[1]>> = visited_path) },
        settled |-> { node \in nodes : node \in visited_nodes_set },
        highlighted |-> { node \in nodes : node = highlighted_node },
        labels |-> [node \in nodes |->
                      IF current_distances[node] # Infinity
                      THEN "d=" \o IntStr(current_distances[node])
                      ELSE NoLabel],
        table |-> IF is_final_frame THEN TableData(final_distances) ELSE None]

\* The (u, v) pairs in the order the loops of lines 118-119 visit them, from
\* key u on (the keys of the graph are 0, 1, ... in this order).
RECURSIVE EdgesInDrawOrder(_)
EdgesInDrawOrder(u) ==
    IF u \notin DOMAIN graph THEN <<>>
    ELSE [i \in 1..Len(graph[u]) |-> <<u, graph[u][i][1]>>] \o EdgesInDrawOrder(u + 1)

\* Lines 120-121: node_positions[u] and node_positions[v] both exist.
EdgePositioned(uv) == uv[1] \in node_positions /\ uv[2] \in node_positions

\* The edges plotted (line 129) before a lookup of lines 120-121 fails; all
\* of them when none fails.
EdgesPlotted ==
    LET edges == EdgesInDrawOrder(0)
        bad == { i \in 1..Len(edges) : ~EdgePositioned(edges[i]) }
    IN IF bad = {} THEN Len(edges)
       ELSE (CHOOSE i \in bad : \A j \in bad : i <= j) - 1

\* The circles added (line 144) before the lookup of line 134 fails.
CirclesDrawn ==
    LET nodes == DOMAIN graph
        bad == { node \in nodes : node \notin node_positions }
    IN IF bad = {} THEN Cardinality(nodes)
       ELSE Cardinality({ node \in nodes : \A b \in bad : node < b })

\* Every lookup of node_positions in draw_graph succeeds.
LayoutComplete ==
    /\ \A node \in DOMAIN graph : node \in node_positions
    /\ EdgesPlotted = Len(EdgesInDrawOrder(0))

\* Lines 165-168: update(frame_index), for a frame index of range(frames).
update ==
    /\ pc = "done"
    /\ LayoutComplete
    /\ \E index \in 0..(Len(animation_steps) - 1) :
        /\ index < Len(animation_steps)
        /\ frame' = draw_graph(animation_steps[index + 1],
                               IsFinalFrame(index, animation_steps))
        /\ frame_index' = index
    /\ UNCHANGED <<graph, node_positions, start_node, pc, error, dicts, sets, priority_queue,
                   animation_steps, current_distance, current_node, edge_index,
                   run, first, pushes>>

\* update(frame_index) when a lookup of node_positions raises KeyError inside
\* draw_graph (lines 120, 121 or 134): the axes were cleared and hold what was
\* drawn before the lookup.
updateKeyError ==
    /\ pc = "done"
    /\ ~LayoutComplete
    /\ \E index \in 0..(Len(animation_steps) - 1) :
        /\ frame' = [drawn |-> FALSE,
                     plotted |-> EdgesPlotted,
                     circles |-> IF EdgesPlotted = Len(EdgesInDrawOrder(0))
                                 THEN CirclesDrawn ELSE 0]
        /\ frame_index' = index
    /\ pc' = "draw_raised"
    /\ error' = "KeyError"
    /\ UNCHANGED <<graph, node_positions, start_node, dicts, sets, priority_queue,
                   animation_steps, current_distance, current_node, edge_index,
                   run, first, pushes>>

\* ---- a second call on the same inputs --------------------------------------
\* What a caller holds after a call: the distances and the events, with the
\* snapshot objects of the events read out.
Returned ==
    [distances |-> final_distances,
     events |-> [i \in 1..Len(animation_steps) |->
                   [visited_node |-> animation_steps[i].visited_node,
                    visited_path |-> animation_steps[i].visited_path,
                    distances |-> dicts[animation_steps[i].distances],
                    visited_nodes_set |-> sets[animation_steps[i].visited_nodes_set]]]]

\* dijkstra_with_steps(graph, start_node) called again after it returned
\* (first keeps what the first call returned).  The call itself binds
\* nothing: the tables, the heap and the log of the second call are the new
\* objects that lines 45-51 create, so until Initialize has acted the state
\* still holds what the first call left behind.
CallAgain ==
    /\ pc = "done"
    /\ run = 1
    /\ frame = NoFrame
    /\ first' = Returned
    /\ run' = 2
    /\ pc' = "call"
    /\ UNCHANGED <<graph, node_positions, start_node, error, dicts, sets,
                   priority_queue, animation_steps, current_distance, current_node,
                   edge_index, frame, frame_index, pushes>>

\* ---- specifications --------------------------------------------------------
Next ==
    \/ Initialize
    \/ PopStale
    \/ PopSettle
    \/ PopSettleKeyError
    \/ EdgeSkipVisited
    \/ EdgeKeyError
    \/ EdgeNoImprove
    \/ EdgeRelax
    \/ Return
    \/ update

Spec == Init /\ [][Next]_vars

NextTwice ==
    \/ Initialize
    \/ PopStale
    \/ PopSettle
    \/ PopSettleKeyError
    \/ EdgeSkipVisited
    \/ EdgeKeyError
    \/ EdgeNoImprove
    \/ EdgeRelax
    \/ Return
    \/ CallAgain

SpecTwice == Init /\ [][NextTwice]_vars

SpecNeg == InitNeg /\ [][Next]_vars

\* The steps of dijkstra_with_steps: the call runs to its end without
\* suspension, so a step that is possible is taken.
NextRun ==
    \/ Initialize
    \/ PopStale
    \/ PopSettle
    \/ PopSettleKeyError
    \/ EdgeSkipVisited
    \/ EdgeKeyError
    \/ EdgeNoImprove
    \/ EdgeRelax
    \/ Return

SpecFair == Init /\ [][NextRun]_vars /\ WF_vars(NextRun)

NextLayout ==
    \/ Initialize
    \/ PopStale
    \/ PopSettle
    \/ PopSettleKeyError
    \/ EdgeSkipVisited
    \/ EdgeKeyError
    \/ EdgeNoImprove
    \/ EdgeRelax
    \/ Return
    \/ update
    \/ updateKeyError

SpecLayout == InitLayout /\ [][NextLayout]_vars

\* ---- vocabulary of the properties -------------------------------------------
Keys == DOMAIN graph

\* The (source, destination, weight) triples of the adjacency lists.
EdgesOf == UNION { { <<u, graph[u][i][1], graph[u][i][2]>> : i \in 1..Len(graph[u]) } : u \in Keys }

HasNegativeWeight == \E t \in EdgesOf : t[3] < 0

\* Every destination of an edge is a key of the graph.
WellFormed == \A t \in EdgesOf : t[2] \in Keys

\* The nodes that a path of edges leads to from the nodes of S.
RECURSIVE ReachFrom(_)
ReachFrom(S) ==
    LET T == S \cup { t[2] : t \in { x \in EdgesOf : x[1] \in S } }
    IN IF T = S THEN S ELSE ReachFrom(T)

ReachableNodes == ReachFrom({start_node})

SetMin(S) == CHOOSE x \in S : \A y \in S : x <= y

\* Reference computation: Bellman-Ford, rounds of relaxation of every edge.
BellmanFordRound(d, edges) ==
    [v \in Nodes |->
        SetMin({d[v]} \cup { d[t[1]] + t[3] :
                               t \in { x \in edges : x[2] = v /\ d[x[1]] # Infinity } })]

RECURSIVE BellmanFord(_, _, _)
BellmanFord(d, edges, rounds) ==
    IF rounds = 0 THEN d
    ELSE LET next == BellmanFordRound(d, edges)
         IN BellmanFord(next, edges, rounds - 1)

ReferenceDistances ==
    LET edges == EdgesOf
        d0 == [v \in Nodes |-> IF v = start_node THEN 0 ELSE Infinity]
    IN BellmanFord(d0, edges, Cardinality(Nodes))

\* The snapshots an event of the log points to.
EventDistances(i) == dicts[animation_steps[i].distances]
EventVisited(i) == sets[animation_steps[i].visited_nodes_set]
IsSettlement(i) == animation_steps[i].visited_path = None
IsRelaxation(i) == animation_steps[i].visited_path # None
Events == 1..Len(animation_steps)

\* ---- C1 ---------------------------------------------------------------------
\* C1: for a graph with non-negative weights and a start node that is a key,
\* the run returns, and the returned distance table equals the Bellman-Ford
\* reference for every node reachable from start and is infinity for every
\* node that is not reachable.
C1_DistancesMatchReference ==
    /\ pc = "raised" => (~WellFormed \/ start_node \notin Keys \/ HasNegativeWeight)
    /\ (pc = "done" /\ ~HasNegativeWeight) =>
          LET reference == ReferenceDistances
              reachable == ReachableNodes
          IN /\ DOMAIN final_distances = Keys
             /\ \A v \in Keys :
                   /\ v \in reachable => final_distances[v] = reference[v]
                   /\ v \notin reachable => final_distances[v] = Infinity

\* A returned run in which a node was relaxed to a value that a later
\* relaxation improved.
C1_Witness ==
    /\ pc = "done"
    /\ \E i \in Events :
          /\ IsRelaxation(i)
          /\ EventDistances(i)[animation_steps[i].visited_path[2]]
                > final_distances[animation_steps[i].visited_path[2]]

\* ---- C2 ---------------------------------------------------------------------
\* C2: a run on a graph with a negative weight fails with InvalidInput and
\* never completes with distances and an event log.
C2_NegativeWeightRejected ==
    HasNegativeWeight =>
        /\ pc # "done"
        /\ pc = "raised" => error = "InvalidInput"

\* ---- C3 ---------------------------------------------------------------------
\* C3: a run whose start node is not a key of the graph fails with InvalidInput
\* before an event is recorded and before a table entry exists for the start
\* node.
C3_UnknownStartRejected ==
    start_node \notin Keys =>
        /\ animation_steps = <<>>
        /\ pc = "raised" => error = "InvalidInput"
        /\ dicts # <<>> => start_node \notin DOMAIN distances

\* ---- C4 ---------------------------------------------------------------------
\* C4: along the log the visited-set snapshot never shrinks from an event to
\* the next, it grows by exactly one node at every settlement event, and when
\* the run has returned the snapshot of the last settlement event is the set
\* of nodes reachable from start.
C4_VisitedGrowth ==
    /\ \A i \in Events :
          LET before == IF i = 1 THEN {} ELSE EventVisited(i - 1) IN
          /\ before \subseteq EventVisited(i)
          /\ IsSettlement(i) => Cardinality(EventVisited(i)) = Cardinality(before) + 1
    /\ pc = "done" =>
          \E last \in Events :
             /\ IsSettlement(last)
             /\ \A j \in Events : j > last => IsRelaxation(j)
             /\ EventVisited(last) = ReachableNodes

\* A returned run with two or more settlements, a relaxation event, and a key
\* of the graph that is not reachable.
C4_Witness ==
    /\ pc = "done"
    /\ Cardinality(visited_nodes) >= 2
    /\ Keys \ visited_nodes # {}
    /\ Len(animation_steps) > Cardinality(visited_nodes)

\* ---- C5 ---------------------------------------------------------------------
\* C5: the value a relaxation event records for the destination of its edge
\* is strictly smaller than the value every earlier event records for it.
C5_RelaxationStrictlySmaller ==
    \A i \in Events :
        IsRelaxation(i) =>
            \A j \in 1..(i - 1) :
                EventDistances(i)[animation_steps[i].visited_path[2]]
                    < EventDistances(j)[animation_steps[i].visited_path[2]]

\* A node relaxed for the second time: an earlier event already shows a
\* finite value for it.
C5_Witness ==
    \E i \in Events :
        /\ IsRelaxation(i)
        /\ \E j \in 1..(i - 1) :
              /\ IsRelaxation(j)
              /\ animation_steps[j].visited_path[2] = animation_steps[i].visited_path[2]

\* ---- C6 ---------------------------------------------------------------------
\* C6: a step of the run leaves every event of the log, and the two snapshot
\* objects the event points to, as they were.
C6_SnapshotsFrozen ==
    [][\A i \in Events :
          /\ i <= Len(animation_steps')
          /\ animation_steps'[i] = animation_steps[i]
          /\ dicts'[animation_steps[i].distances] = EventDistances(i)
          /\ sets'[animation_steps[i].visited_nodes_set] = EventVisited(i)]_vars

\* An event whose two snapshots differ from the live tables: both tables were
\* updated after the event was appended.
C6_Witness ==
    \E i \in Events :
        /\ EventDistances(i) # distances
        /\ EventVisited(i) # visited_nodes

\* ---- C7 ---------------------------------------------------------------------
\* C7: a call made after an earlier call on the same graph and start node
\* has returned starts from whatever that call left behind, and returns the
\* same distances and the same event sequence: the same number of events
\* and, event by event, the same node, edge, distances snapshot and visited
\* snapshot.
C7_Deterministic ==
    (run = 2 /\ pc = "done") =>
       /\ Returned.distances = first.distances
       /\ Len(Returned.events) = Len(first.events)
       /\ \A i \in 1..Len(first.events) :
             /\ Returned.events[i].visited_node = first.events[i].visited_node
             /\ Returned.events[i].visited_path = first.events[i].visited_path
             /\ Returned.events[i].distances = first.events[i].distances
             /\ Returned.events[i].visited_nodes_set = first.events[i].visited_nodes_set

\* The second call has returned; the first call had left a log and tables
\* behind, and in the run two entries of equal distance were in the heap.
C7_Witness ==
    /\ run = 2
    /\ pc = "done"
    /\ Len(first.events) >= 3
    /\ \E i \in Events, j \in Events :
          /\ i < j
          /\ IsSettlement(i)
          /\ IsSettlement(j)
          /\ final_distances[animation_steps[i].visited_node]
                = final_distances[animation_steps[j].visited_node]
          /\ \E k \in 1..(i - 1) : IsRelaxation(k)
                /\ animation_steps[k].visited_path[2] = animation_steps[j].visited_node

\* ---- C8 ---------------------------------------------------------------------
\* C8: a pop removes the entry that is least by distance and then by node;
\* a node is settled before every unvisited node that waits in the heap with
\* the same distance and a larger identifier; and for non-negative weights the
\* settlement events are in non-decreasing order of final distance.
C8_PopOrder ==
    /\ [][(priority_queue' # priority_queue /\ priority_queue' \subseteq priority_queue) =>
            \E e \in priority_queue :
               /\ priority_queue' = priority_queue \ {e}
               /\ current_distance' = e[1]
               /\ current_node' = e[2]
               /\ \A f \in priority_queue :
                     e[1] < f[1] \/ (e[1] = f[1] /\ e[2] <= f[2])]_vars
    /\ [](\A f \in priority_queue :
             (/\ pc \in {"loop", "edges"}
              /\ Len(animation_steps) > 0
              /\ f[2] \notin visited_nodes
              /\ current_node \in visited_nodes
              /\ IsSettlement(Len(animation_steps))
              /\ animation_steps[Len(animation_steps)].visited_node = current_node
              /\ f[1] = current_distance) => current_node < f[2])
    /\ []((pc = "done" /\ ~HasNegativeWeight) =>
             \A i \in Events, j \in Events :
                (i < j /\ IsSettlement(i) /\ IsSettlement(j)) =>
                    final_distances[animation_steps[i].visited_node]
                        <= final_distances[animation_steps[j].visited_node])

\* A node has just been settled while an unvisited node with a larger
\* identifier waits in the heap with the same distance.
C8_Witness ==
    /\ pc = "loop"
    /\ Len(animation_steps) > 0
    /\ IsSettlement(Len(animation_steps))
    /\ animation_steps[Len(animation_steps)].visited_node = current_node
    /\ \E f \in priority_queue :
          /\ f[1] = current_distance
          /\ f[2] > current_node
          /\ f[2] \notin visited_nodes

\* ---- C9 ---------------------------------------------------------------------
\* C9: a frame has the table exactly when its index is len(animation_steps)-1;
\* the table has one row per node of the final distances, in ascending order
\* of node, and a row pairs the node with its final distance or, for a node at
\* infinity, with the marker.
C9_FinalTable ==
    frame.drawn =>
        /\ (frame.table # None) <=> (frame_index = Len(animation_steps) - 1)
        /\ frame.table # None =>
              /\ Len(frame.table) = Cardinality(DOMAIN final_distances)
              /\ { frame.table[r][1] : r \in 1..Len(frame.table) } = DOMAIN final_distances
              /\ \A r \in 1..Len(frame.table), q \in 1..Len(frame.table) :
                    r < q => frame.table[r][1] < frame.table[q][1]
              /\ \A r \in 1..Len(frame.table) :
                    LET d == final_distances[frame.table[r][1]] IN
                    frame.table[r][2] = IF d = Infinity THEN "infinity" ELSE IntStr(d)

\* The last frame of a log of several events, with a row for a node out of
\* reach and a row for a node at a distance above 0.
C9_Witness ==
    /\ frame.drawn
    /\ frame_index = Len(animation_steps) - 1
    /\ frame_index > 0
    /\ \E r \in 1..Len(frame.table) : frame.table[r][2] = "infinity"
    /\ \E r \in 1..Len(frame.table) : frame.table[r][2] = "1"

\* ---- C10 --------------------------------------------------------------------
\* C10: the frame drawn for index i, whatever was drawn before, shows the
\* snapshots of event i: the settled nodes are the nodes of its visited
\* snapshot, which are the nodes settled by the events up to i; the
\* highlighted node is its node; a node has a label exactly when its value in
\* the distance snapshot is not infinity, which is when it is the start node
\* or the destination of a relaxation up to i, and the label is that value.
C10_FrameFromOwnEvent ==
    frame.drawn =>
        LET i == frame_index + 1 IN
        /\ i \in Events
        /\ frame.settled = EventVisited(i)
        /\ frame.settled = { animation_steps[j].visited_node : j \in 1..i }
        /\ frame.highlighted = { animation_steps[i].visited_node }
        /\ \A node \in Keys :
              /\ (frame.labels[node] # NoLabel) <=> (EventDistances(i)[node] # Infinity)
              /\ (frame.labels[node] # NoLabel) <=>
                    \/ node = start_node
                    \/ \E j \in 1..i : /\ IsRelaxation(j)
                                       /\ animation_steps[j].visited_path[2] = node
              /\ EventDistances(i)[node] # Infinity =>
                    frame.labels[node] = "d=" \o IntStr(EventDistances(i)[node])

\* A frame of an event after which both live tables changed: a node settled
\* later and a distance improved later.
C10_Witness ==
    /\ frame.drawn
    /\ frame_index + 1 < Len(animation_steps)
    /\ EventVisited(frame_index + 1) # visited_nodes
    /\ \E node \in Keys :
          /\ EventDistances(frame_index + 1)[node] # Infinity
          /\ EventDistances(frame_index + 1)[node] # final_distances[node]

\* ---- C11 --------------------------------------------------------------------
\* C11: when the layout lacks a position for a node of the graph (an edge
\* source, an edge destination or a node to draw), the player fails with
\* InvalidInput and nothing of the frame is drawn.
C11_MissingLayoutRejected ==
    /\ ~LayoutComplete => ~frame.drawn
    /\ pc = "draw_raised" =>
          /\ error = "InvalidInput"
          /\ frame.plotted = 0
          /\ frame.circles = 0

\* ---- C12 --------------------------------------------------------------------
\* C12: no step of a run changes the graph: its keys, adjacency lists and
\* weights stay as they were at the call, also when the run fails.
C12_GraphUnchanged ==
    [][graph' = graph]_vars

\* A run that failed for a start node that is not a key: the distance table
\* got an entry for the node, the graph did not.
C12_Witness ==
    /\ pc = "raised"
    /\ start_node \notin DOMAIN graph
    /\ start_node \in DOMAIN distances

\* ---- C13 --------------------------------------------------------------------
\* C13: a pop of an entry whose node is already visited appends no event and
\* changes neither the distance table, the visited set, the object stores nor
\* the other entries of the heap; and no node has two settlement events.
C13_LazyDeletion ==
    /\ [][\A e \in priority_queue :
             (pc = "loop" /\ e \notin priority_queue' /\ e[2] \in visited_nodes) =>
                 /\ animation_steps' = animation_steps
                 /\ dicts' = dicts
                 /\ sets' = sets
                 /\ priority_queue' = priority_queue \ {e}
                 /\ pc' = "loop"]_vars
    /\ [](\A i \in Events, j \in Events :
             (i < j /\ IsSettlement(i) /\ IsSettlement(j)) =>
                 animation_steps[i].visited_node # animation_steps[j].visited_node)

\* A stale entry has just been popped: its node is visited and its distance
\* is above the node's distance in the table.
C13_Witness ==
    /\ pc = "loop"
    /\ current_node \in visited_nodes
    /\ current_distance > distances[current_node]

\* ---- C14 --------------------------------------------------------------------
\* C14: once a node is visited, no step changes its value in the distance
\* table or pushes an entry for it, and no relaxation event has a destination
\* that is visited in the event's snapshot (a self-loop included).
C14_SettledFinal ==
    /\ [][(pc \in {"loop", "edges"}) =>
             \A v \in visited_nodes :
                /\ distances'[v] = distances[v]
                /\ \A e \in priority_queue' \ priority_queue : e[2] # v]_vars
    /\ [](\A i \in Events :
             IsRelaxation(i) => animation_steps[i].visited_path[2] \notin EventVisited(i))

\* The edge just passed leads to a visited node and would have lowered its
\* distance: the skip of line 71 kept the settled value.
C14_Witness ==
    /\ pc \in {"loop", "edges"}
    /\ edge_index > 1
    /\ current_node \in DOMAIN graph
    /\ edge_index - 1 <= Len(graph[current_node])
    /\ LET edge == graph[current_node][edge_index - 1] IN
          /\ edge[1] \in visited_nodes
          /\ current_node \in visited_nodes
          /\ current_distance + edge[2] < distances[edge[1]]

\* ---- C15 --------------------------------------------------------------------
\* The number of relaxation events that directly follow the settlement event s.
RECURSIVE RelaxationsAfter(_)
RelaxationsAfter(s) ==
    IF s + 1 \in Events /\ IsRelaxation(s + 1) THEN 1 + RelaxationsAfter(s + 1) ELSE 0

\* C15: the relaxation events between the settlement event of u and the next
\* settlement event have node u and edge (u, v), carry the visited snapshot of
\* that settlement event, show for v the distance of u plus the weight of the
\* edge, and follow one another in the order of the adjacency list of u.
C15_RelaxationEvents ==
    /\ Len(animation_steps) > 0 => IsSettlement(1)
    /\ \A s \in Events :
          IsSettlement(s) =>
             LET u == animation_steps[s].visited_node
                 n == RelaxationsAfter(s)
             IN n > 0 =>
                  \E f \in [1..n -> 1..Len(graph[u])] :
                     /\ \A k \in 1..n, l \in 1..n : k < l => f[k] < f[l]
                     /\ \A k \in 1..n :
                           LET v == graph[u][f[k]][1]
                               weight == graph[u][f[k]][2]
                           IN /\ animation_steps[s + k].visited_node = u
                              /\ animation_steps[s + k].visited_path = <<u, v>>
                              /\ EventVisited(s + k) = EventVisited(s)
                              /\ EventDistances(s + k)[v] = EventDistances(s)[u] + weight

\* Two relaxation events with different destinations follow one settlement
\* event.
C15_Witness ==
    \E s \in Events :
        /\ IsSettlement(s)
        /\ RelaxationsAfter(s) >= 2
        /\ animation_steps[s + 1].visited_path # animation_steps[s + 2].visited_path

\* ---- C16 --------------------------------------------------------------------
\* C16: when the candidate distance of an unvisited neighbor equals its value
\* in the distance table, the step changes neither the table, the heap nor the
\* log; and no relaxation event leaves the value of its destination as it was
\* in the event before.
C16_StrictRelaxation ==
    /\ [][(/\ pc = "edges"
           /\ graph[current_node][edge_index][1] \notin visited_nodes
           /\ graph[current_node][edge_index][1] \in DOMAIN distances
           /\ current_distance + graph[current_node][edge_index][2]
                 = distances[graph[current_node][edge_index][1]]) =>
              /\ dicts' = dicts
              /\ sets' = sets
              /\ priority_queue' = priority_queue
              /\ animation_steps' = animation_steps]_vars
    /\ [](\A i \in Events :
             (IsRelaxation(i) /\ i > 1) =>
                 EventDistances(i)[animation_steps[i].visited_path[2]]
                    # EventDistances(i - 1)[animation_steps[i].visited_path[2]])

\* Among the edges of the current node already passed there are more edges
\* to an unvisited node nb with candidate equal to the table value of nb than
\* relaxation events to nb since the settlement: a tie was passed over.
C16_Witness ==
    /\ pc \in {"loop", "edges"}
    /\ Len(animation_steps) > 0
    /\ current_node \in visited_nodes
    /\ current_node \in DOMAIN graph
    /\ \E s \in Events :
          /\ IsSettlement(s)
          /\ animation_steps[s].visited_node = current_node
          /\ \A j \in Events : j > s => IsRelaxation(j)
          /\ \E nb \in (DOMAIN distances) \ visited_nodes :
                Cardinality({ j \in Events : j > s /\ animation_steps[j].visited_path[2] = nb })
                  < Cardinality({ idx \in 1..Len(graph[current_node]) :
                                    /\ idx < edge_index
                                    /\ graph[current_node][idx][1] = nb
                                    /\ current_distance + graph[current_node][idx][2]
                                          = distances[nb] })

\* ---- C17 --------------------------------------------------------------------
\* C17: the distance snapshot of a settlement event equals the snapshot of the
\* event before it (for the first event: start at 0, every other node at
\* infinity); the snapshot of a relaxation event differs from the one before
\* in exactly the destination of its edge, whose value is strictly smaller;
\* no value ever grows.
C17_SnapshotSteps ==
    \A i \in Events :
        LET before == IF i = 1
                      THEN [node \in Keys \cup {start_node} |->
                               IF node = start_node THEN 0 ELSE Infinity]
                      ELSE EventDistances(i - 1)
            now == EventDistances(i)
        IN /\ DOMAIN now = DOMAIN before
           /\ \A node \in DOMAIN now : now[node] <= before[node]
           /\ IsSettlement(i) => now = before
           /\ IsRelaxation(i) =>
                 /\ { node \in DOMAIN now : now[node] # before[node] }
                       = { animation_steps[i].visited_path[2] }
                 /\ now[animation_steps[i].visited_path[2]]
                       < before[animation_steps[i].visited_path[2]]

\* A log in which a settlement event follows a relaxation event and a
\* relaxation event follows a relaxation event.
C17_Witness ==
    /\ \E i \in Events : i > 1 /\ IsSettlement(i) /\ IsRelaxation(i - 1)
    /\ \E i \in Events : i > 1 /\ IsRelaxation(i) /\ IsRelaxation(i - 1)

\* ---- C18 --------------------------------------------------------------------
\* C18: for a graph whose edge destinations are keys and a start node that is
\* a key, the run reaches its return with an empty heap; at most 1 + (number
\* of adjacency entries) heap entries are pushed; a node has at most one
\* settlement event and an adjacency entry at most one relaxation event.
C18_Terminates ==
    /\ (WellFormed /\ start_node \in Keys) => <>(pc = "done" /\ priority_queue = {})
    /\ [](/\ pushes <= 1 + Cardinality({ ui \in Keys \X (1..MaxEdges) :
                                           ui[2] <= Len(graph[ui[1]]) })
          /\ \A node \in Nodes :
                Cardinality({ i \in Events : /\ IsSettlement(i)
                                             /\ animation_steps[i].visited_node = node }) <= 1
          /\ \A u \in Keys, v \in Nodes :
                Cardinality({ i \in Events : animation_steps[i].visited_path = <<u, v>> })
                   <= Cardinality({ idx \in 1..Len(graph[u]) : graph[u][idx][1] = v }))

\* A returned run that pushed as many entries as the bound allows, with two
\* relaxation events over parallel edges or over different edges.
C18_Witness ==
    /\ pc = "done"
    /\ priority_queue = {}
    /\ pushes = 1 + Cardinality({ ui \in Keys \X (1..MaxEdges) : ui[2] <= Len(graph[ui[1]]) })
    /\ pushes >= 3

\* ---- C19 --------------------------------------------------------------------
\* C19: the step that settles a node pops an entry whose distance is the
\* node's value in the distance table and the least of the node's entries in
\* the heap; while the edges of the node are walked, the popped distance
\* still equals the table value, so both give the same candidate.
C19_PoppedKeyIsTableValue ==
    /\ [][(Len(animation_steps') = Len(animation_steps) + 1
             /\ animation_steps'[Len(animation_steps')].visited_path = None) =>
              /\ current_node' = animation_steps'[Len(animation_steps')].visited_node
              /\ <<current_distance', current_node'>> \in priority_queue
              /\ current_distance' = dicts'[1][current_node']
              /\ current_distance' = dicts[1][current_node']
              /\ \A f \in priority_queue :
                    f[2] = current_node' => current_distance' <= f[1]]_vars
    /\ [](pc = "edges" => current_distance = distances[current_node])

\* A node has just been settled while an older entry for it, with a larger
\* distance, is still in the heap.
C19_Witness ==
    /\ pc \in {"loop", "edges"}
    /\ Len(animation_steps) > 0
    /\ IsSettlement(Len(animation_steps))
    /\ animation_steps[Len(animation_steps)].visited_node = current_node
    /\ current_distance = distances[current_node]
    /\ \E f \in priority_queue : f[2] = current_node /\ f[1] > current_distance

\* ---- C20 --------------------------------------------------------------------
\* C20: after the call has returned, the event log is not empty, its first
\* event is the settlement of the start node with the start at distance 0,
\* the distances snapshot of its last event equals the returned distances,
\* and in the final frame every row of the table agrees with the label drawn
\* over the row's node ("infinity" for a node without label).
C20_LogEndsAndFinalFrame ==
    pc = "done" =>
       /\ Len(animation_steps) >= 1
       /\ IsSettlement(1)
       /\ animation_steps[1].visited_node = start_node
       /\ EventDistances(1)[start_node] = 0
       /\ EventDistances(Len(animation_steps)) = final_distances
       /\ (frame.drawn /\ frame.table # None) =>
             /\ frame_index = Len(animation_steps) - 1
             /\ { frame.table[i][1] : i \in 1..Len(frame.table) } = DOMAIN frame.labels
             /\ \A i \in 1..Len(frame.table) :
                   frame.labels[frame.table[i][1]] =
                      IF frame.table[i][2] = "infinity" THEN NoLabel
                      ELSE "d=" \o frame.table[i][2]

\* The final frame of a log of at least three events is drawn, with a node
\* at a positive distance and a node at infinity.
C20_Witness ==
    /\ pc = "done"
    /\ frame.drawn
    /\ frame.table # None
    /\ Len(animation_steps) >= 3
    /\ \E node \in DOMAIN frame.labels : frame.labels[node] = NoLabel
    /\ \E node \in DOMAIN frame.labels : frame.labels[node] = "d=1"

====
